---- MODULE Spec2Model ----
(***************************************************************************)
(* Model of models/transformer.py (DETR-style encoder/decoder stack) and   *)
(* models/checkpoint.py (load_dygraph_pretrain).                           *)
(*                                                                         *)
(* Tensors are not computed numerically.  Every tensor operation the code  *)
(* performs appends one entry to the trace `tr`: the operation, the layer  *)
(* that performed it, the ids of its argument tensors, and the shape and   *)
(* strides of its result.  A tensor is the index of its entry in `tr`; the *)
(* id 0 stands for Python's None.                                          *)
(***************************************************************************)
EXTENDS Integers, Sequences, FiniteSets, TLC

\* ------------------------------------------------------------------ bounds
MaxLayers == 2

\* ------------------------------------------------------- program constants
GNGroups == 16
GNChannels == 256
dim_feedforward == 2048
nhead == 8

\* Model widths tried for d_model and for the channel count of the inputs.
DModels == {256, 512}

\* Sizes of the inputs: batch, feature-map height and width, number of queries.
InputSizes ==
    {[bs |-> 1, h |-> 1, w |-> 1, nq |-> 1], [bs |-> 2, h |-> 2, w |-> 3, nq |-> 2]}

\* Paths handed to load_dygraph_pretrain; "None" is the default path=None.
Paths == {"None", "a", "b"}

\* Names handed to _get_activation_fn: the five it knows and one it does not.
ActivationNames == {"relu", "gelu", "glu", "Hswish", "relu6", "tanh"}

\* ------------------------------------------------------ shapes and strides
RECURSIVE ProdFrom(_, _)
ProdFrom(s, i) ==
    IF i > Len(s) THEN 1 ELSE s[i] * ProdFrom(s, i + 1)

Numel(s) == ProdFrom(s, 1)

\* Row-major strides of a freshly allocated tensor.
Contig(s) == [i \in 1..Len(s) |-> ProdFrom(s, i + 1)]

Last(s) == s[Len(s)]

SetLast(s, v) == [s EXCEPT ![Len(s)] = v]

\* Storage offset of the element at the 0-based index tuple idx of a tensor of
\* 3 or 4 dimensions.
Offset(t, idx) ==
    IF Len(idx) = 3
    THEN idx[1] * t.strides[1] + idx[2] * t.strides[2] + idx[3] * t.strides[3]
    ELSE idx[1] * t.strides[1] + idx[2] * t.strides[2] + idx[3] * t.strides[3]
         + idx[4] * t.strides[4]

\* All 0-based index tuples of a shape of 3 or 4 dimensions.
Indices(s) ==
    IF Len(s) = 3
    THEN {<<a, b, c>> : a \in 0..(s[1] - 1), b \in 0..(s[2] - 1), c \in 0..(s[3] - 1)}
    ELSE {<<a, b, c, d>> : a \in 0..(s[1] - 1), b \in 0..(s[2] - 1),
                           c \in 0..(s[3] - 1), d \in 0..(s[4] - 1)}

\* Tensor.permute(dims): a view, dims are 0-based as in the source.
Permute(t, dims) ==
    [shape   |-> [i \in 1..Len(dims) |-> t.shape[dims[i] + 1]],
     strides |-> [i \in 1..Len(dims) |-> t.strides[dims[i] + 1]]]

\* Tensor.transpose(1, 2) of a 4-d tensor: a view.
Transpose12(t) == Permute(t, <<0, 2, 1, 3>>)

\* Tensor.flatten(start_dim) merging the trailing dimensions from the 1-based
\* position `from`: a view when those dimensions are laid out contiguously,
\* otherwise a contiguous copy.
FlattenFrom(t, from) ==
    LET n    == Len(t.shape)
        tail == [i \in 1..(n - from + 1) |-> t.shape[from + i - 1]]
        sh   == [i \in 1..from |-> IF i < from THEN t.shape[i] ELSE Numel(tail)]
        mergeable ==
            \A i \in from..(n - 1) :
                t.strides[i] = t.shape[i + 1] * t.strides[i + 1]
    IN  IF mergeable
        THEN [shape |-> sh,
              strides |-> [i \in 1..from |->
                              IF i < from THEN t.strides[i] ELSE t.strides[n]]]
        ELSE [shape |-> sh, strides |-> Contig(sh)]

\* Tensor.view(newshape): the strides of the view, or <<>> when the tensor's
\* layout does not allow the view (the stride computation of Tensor.view).
RECURSIVE ViewInner(_, _, _, _, _, _)
ViewInner(nsh, vd, vn, tn, base, ns) ==
    IF vd >= 1 /\ (vn < tn \/ nsh[vd] = 1)
    THEN ViewInner(nsh, vd - 1, vn * nsh[vd], tn, base, [ns EXCEPT ![vd] = vn * base])
    ELSE [vd |-> vd, vn |-> vn, ns |-> ns]

RECURSIVE ViewOuter(_, _, _, _, _, _, _, _)
ViewOuter(osh, ost, nsh, td, vd, tn0, base, ns) ==
    IF td = 0
    THEN IF vd = 0 THEN ns ELSE <<>>
    ELSE LET tn == tn0 * osh[td]
         IN  IF td = 1 \/ (osh[td - 1] # 1 /\ ost[td - 1] # tn * base)
             THEN LET r == ViewInner(nsh, vd, 1, tn, base, ns)
                  IN  IF r.vn # tn
                      THEN <<>>
                      ELSE ViewOuter(osh, ost, nsh, td - 1, r.vd, 1,
                                     IF td > 1 THEN ost[td - 1] ELSE base, r.ns)
             ELSE ViewOuter(osh, ost, nsh, td - 1, vd, tn, base, ns)

ViewStrides(t, nsh) ==
    IF Numel(t.shape) # Numel(nsh)
    THEN <<>>
    ELSE ViewOuter(t.shape, t.strides, nsh, Len(t.shape), Len(nsh), 1,
                   Last(t.strides), [i \in 1..Len(nsh) |-> 0])

\* Tensor.unsqueeze(d) at the 1-based position pos: a view with a new axis of
\* size 1.
Unsqueeze(t, pos) ==
    LET n == Len(t.shape)
        st == IF pos > n THEN 1 ELSE t.shape[pos] * t.strides[pos]
    IN  [shape   |-> [i \in 1..(n + 1) |->
                         IF i < pos THEN t.shape[i]
                         ELSE IF i = pos THEN 1 ELSE t.shape[i - 1]],
         strides |-> [i \in 1..(n + 1) |->
                         IF i < pos THEN t.strides[i]
                         ELSE IF i = pos THEN st ELSE t.strides[i - 1]]]

\* ------------------------------------------------------ activation selector
\* _get_activation_fn: the object returned for a name, or the exception.
\* For "Hswish" the code returns the class Hswish itself, not an instance.
get_activation_fn(activation) ==
    IF activation = "relu" THEN [err |-> "none", fn |-> "F.relu"]
    ELSE IF activation = "gelu" THEN [err |-> "none", fn |-> "F.gelu"]
    ELSE IF activation = "glu" THEN [err |-> "none", fn |-> "F.glu"]
    ELSE IF activation = "Hswish" THEN [err |-> "none", fn |-> "class Hswish"]
    ELSE IF activation = "relu6" THEN [err |-> "none", fn |-> "F.relu6"]
    ELSE [err |-> "RuntimeError", fn |-> "none"]

\* ------------------------------------------------------- tensor operations
\* The outcome of one operation: an exception, an existing tensor (alias), or
\* the shape and strides of a new tensor or view.
Raise(e) == [err |-> e, alias |-> 0, shape |-> <<>>, strides |-> <<>>]

Alias(id) == [err |-> "none", alias |-> id, shape |-> <<>>, strides |-> <<>>]

OkNew(sh) == [err |-> "none", alias |-> 0, shape |-> sh, strides |-> Contig(sh)]

OkView(v) == [err |-> "none", alias |-> 0, shape |-> v.shape, strides |-> v.strides]

\* Calling the object _get_activation_fn returned on a tensor of shape sh.
\* F.relu, F.gelu and F.relu6 keep the shape; F.glu halves the last dimension;
\* calling the class Hswish constructs a module with one positional argument,
\* which nn.Module.__init__ rejects with TypeError.
ApplyActivation(fn, sh) ==
    IF fn = "class Hswish" THEN Raise("TypeError")
    ELSE IF fn = "F.glu"
         THEN IF Last(sh) % 2 # 0 THEN Raise("RuntimeError")
              ELSE OkNew(SetLast(sh, Last(sh) \div 2))
         ELSE OkNew(sh)

\* nn.GroupNorm(16, 256) applied to a tensor whose dimension 1 is the channels.
GroupNorm(sh) ==
    IF sh[2] % GNGroups # 0 \/ sh[2] # GNChannels
    THEN Raise("RuntimeError")
    ELSE OkNew(sh)

\* nn.LayerNorm(d_model): normalizes the last dimension, which must be d_model.
LayerNorm(sh, d_model) ==
    IF Last(sh) # d_model THEN Raise("RuntimeError") ELSE OkNew(sh)

\* nn.MultiheadAttention(d_model, nhead).forward(query, key, value, ...).
MultiheadAttention(q, k, v, d_model) ==
    IF Last(q.shape) # d_model THEN Raise("AssertionError")
    ELSE IF Last(k.shape) # d_model \/ Last(v.shape) # d_model
              \/ k.shape[1] # v.shape[1] \/ k.shape[2] # q.shape[2]
         THEN Raise("AssertionError")
         ELSE OkNew(q.shape)

\* nn.Linear(fin, fout).
Linear(sh, fin, fout) ==
    IF Last(sh) # fin THEN Raise("RuntimeError") ELSE OkNew(SetLast(sh, fout))

\* Evaluate operation op on the tensors a (ids into tr, 0 for None).
Eval(op, a, tr, ctx) ==
    CASE op = "with_pos_embed" ->
            IF a[2] = 0 THEN Alias(a[1])
            ELSE IF tr[a[1]].shape # tr[a[2]].shape THEN Raise("RuntimeError")
            ELSE OkNew(tr[a[1]].shape)
      [] op \in {"self_attn", "multihead_attn"} ->
            MultiheadAttention(tr[a[1]], tr[a[2]], tr[a[3]], ctx.d_model)
      [] op \in {"dropout", "dropout1", "dropout2", "dropout3"} ->
            OkNew(tr[a[1]].shape)
      [] op = "add" ->
            IF tr[a[1]].shape # tr[a[2]].shape THEN Raise("RuntimeError")
            ELSE OkNew(tr[a[1]].shape)
      [] op = "permute(1,2,0)" -> OkView(Permute(tr[a[1]], <<1, 2, 0>>))
      [] op = "permute(2,0,1)" -> OkView(Permute(tr[a[1]], <<2, 0, 1>>))
      [] op \in {"norm1", "norm2", "norm3"} -> GroupNorm(tr[a[1]].shape)
      [] op = "linear1" -> Linear(tr[a[1]].shape, ctx.d_model, dim_feedforward)
      [] op = "activation" -> ApplyActivation(ctx.fn, tr[a[1]].shape)
      [] op = "linear2" -> Linear(tr[a[1]].shape, dim_feedforward, ctx.d_model)
      [] op = "norm" ->
            IF ~ctx.norm THEN Raise("TypeError")
            ELSE LayerNorm(tr[a[1]].shape, ctx.d_model)
      [] op = "flatten(2)" -> OkView(FlattenFrom(tr[a[1]], 3))
      [] op = "flatten(1)" -> OkView(FlattenFrom(tr[a[1]], 2))
      [] op = "unsqueeze(1)" -> OkView(Unsqueeze(tr[a[1]], 2))
      [] op = "unsqueeze(0)" -> OkView(Unsqueeze(tr[a[1]], 1))
      [] op = "repeat(1,bs,1)" ->
            OkNew([tr[a[1]].shape EXCEPT ![2] = @ * ctx.bs])
      [] op = "zeros_like" -> OkNew(tr[a[1]].shape)
      [] op = "transpose(1,2)" -> OkView(Transpose12(tr[a[1]]))
      [] op = "view(bs,c,h,w)" ->
            LET st == ViewStrides(tr[a[1]], <<ctx.bs, ctx.c, ctx.h, ctx.w>>)
            IN  IF st = <<>> THEN Raise("RuntimeError")
                ELSE OkView([shape |-> <<ctx.bs, ctx.c, ctx.h, ctx.w>>, strides |-> st])
      [] op = "stack" ->
            IF a = <<>> THEN Raise("RuntimeError")
            ELSE OkNew(<<Len(a)>> \o tr[a[1]].shape)

\* One entry of the trace (the sequences are stored as explicit tuples).
Entry(op, a, ctx, r) ==
    [op |-> op, who |-> ctx.who, layer |-> ctx.layer, args |-> a \o << >>,
     shape |-> r.shape \o << >>, strides |-> r.strides \o << >>]

\* ---------------------------------------------- straight-line code segments
\* A segment is a sequence of instructions [dst, op, a]: evaluate op on the
\* local variables named in a and bind the result to the local variable dst.
\* Run executes the instructions in order and stops at the first exception.
Ins(dst, op, a) == [dst |-> dst, op |-> op, a |-> a]

RECURSIVE Run(_, _, _, _, _)
Run(prog, i, env, tr, ctx) ==
    IF i > Len(prog)
    THEN [env |-> env, tr |-> tr, err |-> "none", errAt |-> "none"]
    ELSE LET ins == prog[i]
             a   == [j \in 1..Len(ins.a) |-> env[ins.a[j]]]
             r   == Eval(ins.op, a, tr, ctx)
         IN  IF r.err # "none"
             THEN [env |-> env, tr |-> tr, err |-> r.err, errAt |-> ins.op]
             ELSE IF r.alias # 0
                  THEN Run(prog, i + 1, [env EXCEPT ![ins.dst] = r.alias], tr, ctx)
                  ELSE Run(prog, i + 1,
                           [env EXCEPT ![ins.dst] = Len(tr) + 1],
                           Append(tr, Entry(ins.op, a, ctx, r)), ctx)

\* Local variable names of the code segments; a local not bound is None (0).
Locals ==
    {"src", "pos", "src_mask", "src_key_padding_mask", "q", "src2", "t",
     "tgt", "memory", "tgt_mask", "memory_mask", "tgt_key_padding_mask",
     "memory_key_padding_mask", "query_pos", "tgt2", "qc", "kc",
     "pos_embed", "query_embed", "mask", "hs", "ret0", "ret1", "output"}

NoLocals == [n \in Locals |-> 0]

\* A pre-norm variant of the encoder layer: each sub-block normalizes its input
\* and the residual sum is left un-normalized.
TransformerEncoderLayer_forward_pre ==
    << Ins("src2", "permute(1,2,0)", <<"src">>),
       Ins("src2", "norm1", <<"src2">>),
       Ins("src2", "permute(2,0,1)", <<"src2">>),
       Ins("q", "with_pos_embed", <<"src2", "pos">>),
       Ins("src2", "self_attn",
           <<"q", "q", "src2", "src_mask", "src_key_padding_mask">>),
       Ins("t", "dropout1", <<"src2">>),
       Ins("src", "add", <<"src", "t">>),
       Ins("src2", "permute(1,2,0)", <<"src">>),
       Ins("src2", "norm2", <<"src2">>),
       Ins("src2", "permute(2,0,1)", <<"src2">>),
       Ins("t", "linear1", <<"src2">>),
       Ins("t", "activation", <<"t">>),
       Ins("t", "dropout", <<"t">>),
       Ins("src2", "linear2", <<"t">>),
       Ins("t", "dropout2", <<"src2">>),
       Ins("src", "add", <<"src", "t">>) >>

\* TransformerEncoderLayer.forward.  normalize_before is stored by __init__
\* and never read here.
TransformerEncoderLayer_forward ==
    << Ins("q", "with_pos_embed", <<"src", "pos">>),
       Ins("src2", "self_attn",
           <<"q", "q", "src", "src_mask", "src_key_padding_mask">>),
       Ins("t", "dropout1", <<"src2">>),
       Ins("src", "add", <<"src", "t">>),
       Ins("src", "permute(1,2,0)", <<"src">>),
       Ins("src", "norm1", <<"src">>),
       Ins("src", "permute(2,0,1)", <<"src">>),
       Ins("t", "linear1", <<"src">>),
       Ins("t", "activation", <<"t">>),
       Ins("t", "dropout", <<"t">>),
       Ins("src2", "linear2", <<"t">>),
       Ins("t", "dropout2", <<"src2">>),
       Ins("src", "add", <<"src", "t">>),
       Ins("src", "permute(1,2,0)", <<"src">>),
       Ins("src", "norm2", <<"src">>),
       Ins("src", "permute(2,0,1)", <<"src">>) >>

\* TransformerDecoderLayer.forward.
TransformerDecoderLayer_forward ==
    << Ins("q", "with_pos_embed", <<"tgt", "query_pos">>),
       Ins("tgt2", "self_attn",
           <<"q", "q", "tgt", "tgt_mask", "tgt_key_padding_mask">>),
       Ins("t", "dropout1", <<"tgt2">>),
       Ins("tgt", "add", <<"tgt", "t">>),
       Ins("tgt", "permute(1,2,0)", <<"tgt">>),
       Ins("tgt", "norm1", <<"tgt">>),
       Ins("tgt", "permute(2,0,1)", <<"tgt">>),
       Ins("qc", "with_pos_embed", <<"tgt", "query_pos">>),
       Ins("kc", "with_pos_embed", <<"memory", "pos">>),
       Ins("tgt2", "multihead_attn",
           <<"qc", "kc", "memory", "memory_mask", "memory_key_padding_mask">>),
       Ins("t", "dropout2", <<"tgt2">>),
       Ins("tgt", "add", <<"tgt", "t">>),
       Ins("tgt", "permute(1,2,0)", <<"tgt">>),
       Ins("tgt", "norm2", <<"tgt">>),
       Ins("tgt", "permute(2,0,1)", <<"tgt">>),
       Ins("t", "linear1", <<"tgt">>),
       Ins("t", "activation", <<"t">>),
       Ins("t", "dropout", <<"t">>),
       Ins("tgt2", "linear2", <<"t">>),
       Ins("t", "dropout3", <<"tgt2">>),
       Ins("tgt", "add", <<"tgt", "t">>),
       Ins("tgt", "permute(1,2,0)", <<"tgt">>),
       Ins("tgt", "norm3", <<"tgt">>),
       Ins("tgt", "permute(2,0,1)", <<"tgt">>) >>

\* A variant of the head of Transformer.forward that permutes src to CxHWxN.
Transformer_forward_head_chw ==
    << Ins("src", "flatten(2)", <<"src">>),
       Ins("src", "permute(1,2,0)", <<"src">>),
       Ins("pos_embed", "flatten(2)", <<"pos_embed">>),
       Ins("pos_embed", "permute(2,0,1)", <<"pos_embed">>),
       Ins("query_embed", "unsqueeze(1)", <<"query_embed">>),
       Ins("query_embed", "repeat(1,bs,1)", <<"query_embed">>),
       Ins("mask", "flatten(1)", <<"mask">>),
       Ins("tgt", "zeros_like", <<"query_embed">>) >>

\* Transformer.forward up to the encoder call (flatten NxCxHxW to HWxNxC).
Transformer_forward_head ==
    << Ins("src", "flatten(2)", <<"src">>),
       Ins("src", "permute(2,0,1)", <<"src">>),
       Ins("pos_embed", "flatten(2)", <<"pos_embed">>),
       Ins("pos_embed", "permute(2,0,1)", <<"pos_embed">>),
       Ins("query_embed", "unsqueeze(1)", <<"query_embed">>),
       Ins("query_embed", "repeat(1,bs,1)", <<"query_embed">>),
       Ins("mask", "flatten(1)", <<"mask">>),
       Ins("tgt", "zeros_like", <<"query_embed">>) >>

\* Transformer.forward's return statement.
Transformer_forward_return ==
    << Ins("ret0", "transpose(1,2)", <<"hs">>),
       Ins("ret1", "permute(1,2,0)", <<"memory">>),
       Ins("ret1", "view(bs,c,h,w)", <<"ret1">>) >>

\* ------------------------------------------------------------------- state
VARIABLES
    call,          \* the entry point being exercised
    cfg,           \* constructor arguments and input sizes
    obj,           \* the constructed module: activation handle, norms, flags
    pc,            \* position in the call
    k,             \* number of layers of the current stack already executed
    tr,            \* trace of tensor operations; a tensor is an index into it
    loc,           \* locals of Transformer.forward
    ef,            \* locals of TransformerEncoder.forward
    df,            \* locals of TransformerDecoder.forward
    intermediate,  \* TransformerDecoder.forward's list `intermediate`
    result,        \* the returned tensors
    err,           \* the exception raised, if any
    ckpt           \* file system and model state of load_dygraph_pretrain

vars == <<call, cfg, obj, pc, k, tr, loc, ef, df, intermediate, result, err, ckpt>>

NoErr == [type |-> "none", op |-> "none", who |-> "none", layer |-> 0]

ErrOf(r, ctx) == [type |-> r.err, op |-> r.errAt, who |-> ctx.who, layer |-> ctx.layer]

NoObj == [fn |-> "none", enc_norm |-> FALSE, dec_norm |-> FALSE,
          return_intermediate |-> FALSE]

Ctx(who, layer, norm) ==
    [who |-> who, layer |-> layer, norm |-> norm, d_model |-> cfg.d_model,
     fn |-> obj.fn, bs |-> cfg.bs, c |-> cfg.c, h |-> cfg.h, w |-> cfg.w]

Input(name, sh) ==
    [op |-> "input", who |-> name, layer |-> 0, args |-> <<>>,
     shape |-> sh, strides |-> Contig(sh)]

\* ------------------------------------------------------------ construction
\* The arguments of the three constructors, over the bounded input sets.
Configs(c) ==
    { g \in
    [d_model : DModels, c : DModels,
     num_encoder_layers : IF c = "TransformerDecoder" THEN {0} ELSE 0..MaxLayers,
     num_decoder_layers : IF c = "TransformerEncoder" THEN {0} ELSE 0..MaxLayers,
     activation : ActivationNames,
     normalize_before : IF c = "Transformer" THEN BOOLEAN ELSE {FALSE},
     return_intermediate : IF c = "TransformerEncoder" THEN {FALSE} ELSE BOOLEAN,
     norm : IF c = "Transformer" THEN {TRUE} ELSE BOOLEAN,
     pos : IF c = "Transformer" THEN {TRUE} ELSE BOOLEAN,
     bs : {1, 2}, h : {1, 2}, w : {1, 3}, nq : {1, 2}] :
      /\ [bs |-> g.bs, h |-> g.h, w |-> g.w, nq |-> g.nq] \in InputSizes
      /\ (c # "Transformer" => g.c = g.d_model) }

\* The tensors passed to forward, as the first entries of the trace.
Inputs(c, g) ==
    IF c = "Transformer"
    THEN << Input("src", <<g.bs, g.c, g.h, g.w>>),
            Input("mask", <<g.bs, g.h, g.w>>),
            Input("query_embed", <<g.nq, g.c>>),
            Input("pos_embed", <<g.bs, g.c, g.h, g.w>>) >>
    ELSE IF c = "TransformerEncoder"
    THEN << Input("src", <<g.h * g.w, g.bs, g.c>>),
            Input("mask", <<g.h * g.w, g.h * g.w>>),
            Input("src_key_padding_mask", <<g.bs, g.h * g.w>>),
            Input("pos", <<g.h * g.w, g.bs, g.c>>) >>
    ELSE << Input("tgt", <<g.nq, g.bs, g.c>>),
            Input("memory", <<g.h * g.w, g.bs, g.c>>),
            Input("tgt_mask", <<g.nq, g.nq>>),
            Input("memory_mask", <<g.nq, g.h * g.w>>),
            Input("tgt_key_padding_mask", <<g.bs, g.nq>>),
            Input("memory_key_padding_mask", <<g.bs, g.h * g.w>>),
            Input("pos", <<g.h * g.w, g.bs, g.c>>),
            Input("query_pos", <<g.nq, g.bs, g.c>>) >>

\* Transformer.__init__: the encoder gets a final LayerNorm only when
\* normalize_before is set; the decoder always gets one.
Transformer_init(g, fn) ==
    [fn |-> fn, enc_norm |-> g.normalize_before, dec_norm |-> TRUE,
     return_intermediate |-> g.return_intermediate]

\* TransformerEncoder.__init__ (norm=None by default).
TransformerEncoder_init(g, fn) ==
    [fn |-> fn, enc_norm |-> g.norm, dec_norm |-> FALSE,
     return_intermediate |-> FALSE]

\* TransformerDecoder.__init__ (norm=None, return_intermediate=False by default).
TransformerDecoder_init(g, fn) ==
    [fn |-> fn, enc_norm |-> FALSE, dec_norm |-> g.norm,
     return_intermediate |-> g.return_intermediate]

\* The layer constructors: nn.MultiheadAttention asserts that d_model is a
\* multiple of nhead, then _get_activation_fn looks the activation up.
Layer_init(g) ==
    IF g.d_model % nhead # 0
    THEN [err |-> "AssertionError", op |-> "MultiheadAttention", fn |-> "none"]
    ELSE LET a == get_activation_fn(g.activation)
         IN  [err |-> a.err, op |-> "_get_activation_fn", fn |-> a.fn]

Construct ==
    /\ pc = "new"
    /\ LET l == Layer_init(cfg)
       IN  IF l.err # "none"
           THEN /\ pc' = "error"
                /\ err' = [type |-> l.err, op |-> l.op, who |-> "__init__", layer |-> 0]
                /\ obj' = obj
           ELSE /\ pc' = "ready"
                /\ err' = err
                /\ obj' = IF call = "Transformer" THEN Transformer_init(cfg, l.fn)
                          ELSE IF call = "TransformerEncoder"
                               THEN TransformerEncoder_init(cfg, l.fn)
                               ELSE TransformerDecoder_init(cfg, l.fn)
    /\ UNCHANGED <<call, cfg, k, tr, loc, ef, df, intermediate, result, ckpt>>

\* ------------------------------------------------------------ encoder stack
\* TransformerEncoder.forward's parameters and `output = src`.
TransformerEncoder_enter(src, mask, kpm, pos) ==
    [src |-> src, mask |-> mask, src_key_padding_mask |-> kpm, pos |-> pos,
     output |-> src] @@ NoLocals

\* A variant of EncoderLayerArgs that feeds every layer the stack's input.
EncoderLayerArgs_src(e) ==
    [src |-> e["src"], src_mask |-> e["mask"],
     src_key_padding_mask |-> e["src_key_padding_mask"], pos |-> e["pos"]]
    @@ NoLocals

\* The arguments the encoder loop passes to a layer.
EncoderLayerArgs(e) ==
    [src |-> e["output"], src_mask |-> e["mask"],
     src_key_padding_mask |-> e["src_key_padding_mask"], pos |-> e["pos"]]
    @@ NoLocals

\* The encoder's statements after the loop: the optional final norm.
TransformerEncoder_tail(norm) ==
    IF norm THEN << Ins("output", "norm", <<"output">>) >> ELSE << >>

\* The arguments of the decoder call in Transformer.forward, and
\* TransformerDecoder.forward's `output = tgt`.
TransformerDecoder_enter(tgt, memory, tm, mm, tkpm, mkpm, pos, qpos) ==
    [tgt |-> tgt, memory |-> memory, tgt_mask |-> tm, memory_mask |-> mm,
     tgt_key_padding_mask |-> tkpm, memory_key_padding_mask |-> mkpm,
     pos |-> pos, query_pos |-> qpos, output |-> tgt] @@ NoLocals

\* Transformer.forward: the reshaping head, then the call of the encoder.
Transformer_forward_begin ==
    /\ pc = "ready" /\ call = "Transformer"
    /\ LET ctx == Ctx("Transformer", 0, FALSE)
           env == [src |-> 1, mask |-> 2, query_embed |-> 3, pos_embed |-> 4] @@ NoLocals
           r   == Run(Transformer_forward_head, 1, env, tr, ctx)
       IN  /\ tr' = r.tr
           /\ loc' = r.env
           /\ IF r.err # "none"
              THEN pc' = "error" /\ err' = ErrOf(r, ctx) /\ ef' = ef
              ELSE /\ pc' = "enc"
                   /\ err' = err
                   /\ ef' = TransformerEncoder_enter(r.env["src"], 0, r.env["mask"],
                                                     r.env["pos_embed"])
    /\ k' = 0
    /\ UNCHANGED <<call, cfg, obj, df, intermediate, result, ckpt>>

\* A direct call of TransformerEncoder.forward(src, mask, src_key_padding_mask, pos).
TransformerEncoder_forward_begin ==
    /\ pc = "ready" /\ call = "TransformerEncoder"
    /\ ef' = TransformerEncoder_enter(1, 2, 3, IF cfg.pos THEN 4 ELSE 0)
    /\ pc' = "enc"
    /\ k' = 0
    /\ UNCHANGED <<call, cfg, obj, tr, loc, df, intermediate, result, err, ckpt>>

\* One iteration of `for layer in self.layers` of the encoder.
TransformerEncoder_layer ==
    /\ pc = "enc" /\ k < cfg.num_encoder_layers
    /\ LET ctx == Ctx("enc", k + 1, FALSE)
           r   == Run(TransformerEncoderLayer_forward, 1, EncoderLayerArgs(ef), tr, ctx)
       IN  /\ tr' = r.tr
           /\ IF r.err # "none"
              THEN pc' = "error" /\ err' = ErrOf(r, ctx) /\ UNCHANGED <<ef, k>>
              ELSE /\ ef' = [ef EXCEPT !["output"] = r.env["src"]]
                   /\ k' = k + 1
                   /\ UNCHANGED <<pc, err>>
    /\ UNCHANGED <<call, cfg, obj, loc, df, intermediate, result, ckpt>>

\* The encoder's final norm and return; in Transformer.forward the result is
\* `memory` and the decoder is called next.
TransformerEncoder_finish ==
    /\ pc = "enc" /\ k = cfg.num_encoder_layers
    /\ LET ctx == Ctx("TransformerEncoder", 0, obj.enc_norm)
           r   == Run(TransformerEncoder_tail(obj.enc_norm), 1, ef, tr, ctx)
           out == r.env["output"]
       IN  /\ tr' = r.tr
           /\ ef' = r.env
           /\ IF r.err # "none"
              THEN pc' = "error" /\ err' = ErrOf(r, ctx)
                   /\ UNCHANGED <<loc, df, result, k>>
              ELSE IF call = "TransformerEncoder"
              THEN pc' = "done" /\ result' = <<out>> /\ UNCHANGED <<loc, df, err, k>>
              ELSE /\ pc' = "dec"
                   /\ k' = 0
                   /\ loc' = [loc EXCEPT !["memory"] = out]
                   /\ df' = TransformerDecoder_enter(loc["tgt"], out, 0, 0, 0,
                                loc["mask"], loc["pos_embed"], loc["query_embed"])
                   /\ UNCHANGED <<result, err>>
    /\ intermediate' = << >>
    /\ UNCHANGED <<call, cfg, obj, ckpt>>

\* ------------------------------------------------------------ decoder stack
\* A variant of DecoderLayerArgs in which the memory handed to a layer is the
\* running output of the stack.
DecoderLayerArgs_runningMemory(d) ==
    [tgt |-> d["output"], memory |-> d["output"], tgt_mask |-> d["tgt_mask"],
     memory_mask |-> d["memory_mask"],
     tgt_key_padding_mask |-> d["tgt_key_padding_mask"],
     memory_key_padding_mask |-> d["memory_key_padding_mask"],
     pos |-> d["pos"], query_pos |-> d["query_pos"]] @@ NoLocals

\* The arguments the decoder loop passes to a layer.
DecoderLayerArgs(d) ==
    [tgt |-> d["output"], memory |-> d["memory"], tgt_mask |-> d["tgt_mask"],
     memory_mask |-> d["memory_mask"],
     tgt_key_padding_mask |-> d["tgt_key_padding_mask"],
     memory_key_padding_mask |-> d["memory_key_padding_mask"],
     pos |-> d["pos"], query_pos |-> d["query_pos"]] @@ NoLocals

\* `if self.return_intermediate: intermediate.append(self.norm(output))`:
\* the norm is called without testing it for None.
TransformerDecoder_collect(ri) ==
    IF ri THEN << Ins("t", "norm", <<"output">>) >> ELSE << >>

\* `if self.norm is not None: output = self.norm(output)`.
TransformerDecoder_tail(norm) ==
    IF norm THEN << Ins("output", "norm", <<"output">>) >> ELSE << >>

\* A variant of ReplaceLast that appends without popping.
ReplaceLast_nopop(inter, out) ==
    [err |-> "none", list |-> Append(inter, out)]

\* `intermediate.pop(); intermediate.append(output)`: list.pop raises
\* IndexError on an empty list.
ReplaceLast(inter, out) ==
    IF inter = << >>
    THEN [err |-> "IndexError", list |-> inter]
    ELSE [err |-> "none", list |-> Append(SubSeq(inter, 1, Len(inter) - 1), out)]

\* `return torch.stack(intermediate)` or `return output.unsqueeze(0)`.
TransformerDecoder_return(env, inter, trc, ctx, ri) ==
    IF ri
    THEN LET r == Eval("stack", inter, trc, ctx)
         IN  IF r.err # "none"
             THEN [env |-> env, tr |-> trc, err |-> r.err, errAt |-> "stack"]
             ELSE [env |-> [env EXCEPT !["hs"] = Len(trc) + 1],
                   tr |-> Append(trc, Entry("stack", inter, ctx, r)),
                   err |-> "none", errAt |-> "none"]
    ELSE Run(<< Ins("hs", "unsqueeze(0)", <<"output">>) >>, 1, env, trc, ctx)

\* A direct call of TransformerDecoder.forward(tgt, memory, ...).
TransformerDecoder_forward_begin ==
    /\ pc = "ready" /\ call = "TransformerDecoder"
    /\ df' = TransformerDecoder_enter(1, 2, 3, 4, 5, 6,
                                      IF cfg.pos THEN 7 ELSE 0,
                                      IF cfg.pos THEN 8 ELSE 0)
    /\ intermediate' = << >>
    /\ pc' = "dec"
    /\ k' = 0
    /\ UNCHANGED <<call, cfg, obj, tr, loc, ef, result, err, ckpt>>

\* One iteration of `for layer in self.layers` of the decoder.
TransformerDecoder_layer ==
    /\ pc = "dec" /\ k < cfg.num_decoder_layers
    /\ LET ctx  == Ctx("dec", k + 1, FALSE)
           r    == Run(TransformerDecoderLayer_forward, 1, DecoderLayerArgs(df), tr, ctx)
           d1   == [df EXCEPT !["output"] = r.env["tgt"]]
           ctxn == Ctx("TransformerDecoder", k + 1, obj.dec_norm)
           n    == Run(TransformerDecoder_collect(obj.return_intermediate), 1, d1,
                       r.tr, ctxn)
       IN  IF r.err # "none"
           THEN /\ pc' = "error" /\ err' = ErrOf(r, ctx) /\ tr' = r.tr
                /\ UNCHANGED <<df, intermediate, k>>
           ELSE IF n.err # "none"
           THEN /\ pc' = "error" /\ err' = ErrOf(n, ctxn) /\ tr' = n.tr
                /\ df' = d1
                /\ UNCHANGED <<intermediate, k>>
           ELSE /\ tr' = n.tr
                /\ df' = n.env
                /\ intermediate' = IF obj.return_intermediate
                                   THEN Append(intermediate, n.env["t"])
                                   ELSE intermediate
                /\ k' = k + 1
                /\ UNCHANGED <<pc, err>>
    /\ UNCHANGED <<call, cfg, obj, loc, ef, result, ckpt>>

\* The decoder's statements after the loop.
TransformerDecoder_finish ==
    /\ pc = "dec" /\ k = cfg.num_decoder_layers
    /\ LET ctx == Ctx("TransformerDecoder", 0, obj.dec_norm)
           r1  == Run(TransformerDecoder_tail(obj.dec_norm), 1, df, tr, ctx)
           rl  == IF r1.err = "none" /\ obj.dec_norm /\ obj.return_intermediate
                  THEN ReplaceLast(intermediate, r1.env["output"])
                  ELSE [err |-> "none", list |-> intermediate]
           r2  == TransformerDecoder_return(r1.env, rl.list, r1.tr, ctx,
                                            obj.return_intermediate)
       IN  IF r1.err # "none"
           THEN /\ pc' = "error" /\ err' = ErrOf(r1, ctx) /\ tr' = r1.tr
                /\ UNCHANGED <<df, intermediate, loc, result>>
           ELSE IF rl.err # "none"
           THEN /\ pc' = "error"
                /\ err' = [type |-> rl.err, op |-> "pop", who |-> ctx.who, layer |-> 0]
                /\ tr' = r1.tr /\ df' = r1.env
                /\ UNCHANGED <<intermediate, loc, result>>
           ELSE IF r2.err # "none"
           THEN /\ pc' = "error" /\ err' = ErrOf(r2, ctx) /\ tr' = r2.tr
                /\ df' = r1.env /\ intermediate' = rl.list
                /\ UNCHANGED <<loc, result>>
           ELSE /\ tr' = r2.tr /\ df' = r2.env /\ intermediate' = rl.list
                /\ err' = err
                /\ IF call = "TransformerDecoder"
                   THEN pc' = "done" /\ result' = <<r2.env["hs"]>> /\ loc' = loc
                   ELSE /\ pc' = "ret"
                        /\ loc' = [loc EXCEPT !["hs"] = r2.env["hs"]]
                        /\ result' = result
    /\ UNCHANGED <<call, cfg, obj, k, ef, ckpt>>

\* Transformer.forward's return: hs.transpose(1, 2) and the memory reshaped
\* back to (bs, c, h, w).
Transformer_forward_end ==
    /\ pc = "ret"
    /\ LET ctx == Ctx("Transformer", 0, FALSE)
           r   == Run(Transformer_forward_return, 1, loc, tr, ctx)
       IN  /\ tr' = r.tr
           /\ loc' = r.env
           /\ IF r.err # "none"
              THEN pc' = "error" /\ err' = ErrOf(r, ctx) /\ result' = result
              ELSE /\ pc' = "done" /\ err' = err
                   /\ result' = <<r.env["ret0"], r.env["ret1"]>>
    /\ UNCHANGED <<call, cfg, obj, k, ef, df, intermediate, ckpt>>

\* ------------------------------------------------------- checkpoint loader
NoCkpt == [dirs |-> {}, files |-> {}, path |-> "None", torch_load |-> FALSE,
           load_state_dict |-> FALSE, params |-> "initial"]

\* The file name path + suffix (a pair, so that distinct paths give distinct names).
FileName(path, suffix) == <<path, suffix>>

\* The file systems tried: which of the paths are directories, and for which of
\* them the file path + '.pth.tar' exists.
FileSystems ==
    [dirs : SUBSET (Paths \ {"None"}),
     files : SUBSET {FileName(q, ".pth.tar") : q \in Paths \ {"None"}}]

\* load_dygraph_pretrain(model, path): the exception raised, whether
\* torch.load and model.load_state_dict were called, and the parameters.
\* os.path.isdir(None) raises TypeError; torch.load of a missing file raises
\* FileNotFoundError.
load_dygraph_pretrain(c) ==
    IF c.path = "None"
    THEN [c |-> c, err |-> "TypeError", op |-> "os.path.isdir"]
    ELSE IF ~(c.path \in c.dirs \/ FileName(c.path, ".pth.tar") \in c.files)
    THEN [c |-> c, err |-> "ValueError", op |-> "raise"]
    ELSE IF FileName(c.path, ".pth.tar") \notin c.files
    THEN [c |-> [c EXCEPT !.torch_load = TRUE],
          err |-> "FileNotFoundError", op |-> "torch.load"]
    ELSE [c |-> [c EXCEPT !.torch_load = TRUE, !.load_state_dict = TRUE,
                          !.params = "loaded"],
          err |-> "none", op |-> "none"]

Load ==
    /\ pc = "ready" /\ call = "load_dygraph_pretrain"
    /\ LET r == load_dygraph_pretrain(ckpt)
       IN  /\ ckpt' = r.c
           /\ IF r.err # "none"
              THEN /\ pc' = "error"
                   /\ err' = [type |-> r.err, op |-> r.op,
                              who |-> "load_dygraph_pretrain", layer |-> 0]
              ELSE pc' = "done" /\ err' = err
    /\ UNCHANGED <<call, cfg, obj, k, tr, loc, ef, df, intermediate, result>>

InitLoad ==
    /\ call = "load_dygraph_pretrain"
    /\ \E fsys \in FileSystems, path \in Paths :
          /\ ckpt = [dirs |-> fsys.dirs, files |-> fsys.files, path |-> path,
                     torch_load |-> FALSE, load_state_dict |-> FALSE,
                     params |-> "initial"]
          /\ cfg = [path |-> path]
    /\ obj = NoObj
    /\ pc = "ready"
    /\ k = 0
    /\ tr = << >>
    /\ loc = NoLocals /\ ef = NoLocals /\ df = NoLocals
    /\ intermediate = << >>
    /\ result = << >>
    /\ err = NoErr

InitModules ==

    /\ call \in {"Transformer", "TransformerEncoder", "TransformerDecoder"}
    /\ cfg \in Configs(call)
    /\ obj = NoObj
    /\ pc = "new"
    /\ k = 0
    /\ tr = Inputs(call, cfg)
    /\ loc = NoLocals /\ ef = NoLocals /\ df = NoLocals
    /\ intermediate = << >>
    /\ result = << >>
    /\ err = NoErr
    /\ ckpt = NoCkpt

Init == InitModules \/ InitLoad

Next ==
    \/ Construct
    \/ Transformer_forward_begin
    \/ TransformerEncoder_forward_begin
    \/ TransformerEncoder_layer
    \/ TransformerEncoder_finish
    \/ TransformerDecoder_forward_begin
    \/ TransformerDecoder_layer
    \/ TransformerDecoder_finish
    \/ Transformer_forward_end
    \/ Load

Spec == Init /\ [][Next]_vars

\* ------------------------------------------------------- reading the trace
TrIds == 1..Len(tr)

LastOf(S) == CHOOSE j \in S : \A m \in S : m <= j

\* The entries written by the statements of a given layer.
LayerIds(who, i) == {j \in TrIds : tr[j].who = who /\ tr[j].layer = i}

\* The tensor a layer returned: the result of its last operation.
LayerOut(who, i) == LastOf(LayerIds(who, i))

IsModuleCall == call \in {"Transformer", "TransformerEncoder", "TransformerDecoder"}

\* TransformerDecoder.forward has returned.
DecoderReturned ==
    \/ call = "TransformerDecoder" /\ pc = "done"
    \/ call = "Transformer" /\ pc \in {"ret", "done"}

\* x is the result of the decoder's norm applied to the tensor y.
IsDecNormOf(x, y) ==
    /\ x \in TrIds
    /\ tr[x].op = "norm" /\ tr[x].who = "TransformerDecoder"
    /\ tr[x].args = <<y>>

\* The tensor that enters decoder layer i: tgt for the first layer, then the
\* (un-normalized) output of the layer before.
DecLayerIn(i) == IF i = 1 THEN df["tgt"] ELSE LayerOut("dec", i - 1)

\* ----------------------------------------------------------------- claim C1
\* C1: with a norm present and N >= 1 decoder layers, a returning
\* TransformerDecoder.forward gives, with return_intermediate, a stack of
\* exactly N entries of which entry i is the norm of layer i's output, and
\* without it a one-entry result holding the norm of the last layer's output.
C1_DecoderStack ==
    (DecoderReturned /\ obj.dec_norm /\ cfg.num_decoder_layers >= 1) =>
        LET hs == tr[df["hs"]]
            N  == cfg.num_decoder_layers
        IN  IF obj.return_intermediate
            THEN /\ hs.op = "stack"
                 /\ Len(hs.args) = N
                 /\ hs.shape[1] = N
                 /\ \A i \in 1..N : IsDecNormOf(hs.args[i], LayerOut("dec", i))
            ELSE /\ hs.op = "unsqueeze(0)"
                 /\ hs.shape[1] = 1
                 /\ IsDecNormOf(hs.args[1], LayerOut("dec", N))

C1_Witness ==
    /\ DecoderReturned /\ obj.dec_norm /\ obj.return_intermediate
    /\ cfg.num_decoder_layers = MaxLayers
    /\ Len(tr[df["hs"]].args) = MaxLayers

\* ----------------------------------------------------------------- claim C2
\* C2: a TransformerDecoder built with norm=None and N >= 1 layers raises no
\* error in its own statements, with or without return_intermediate, and what
\* it returns are the un-normalized layer outputs.
C2_NormOptional ==
    (call = "TransformerDecoder" /\ ~cfg.norm /\ cfg.num_decoder_layers >= 1) =>
        /\ ~(pc = "error" /\ err.who = "TransformerDecoder")
        /\ pc = "done" =>
              LET hs == tr[df["hs"]]
                  N  == cfg.num_decoder_layers
              IN  IF cfg.return_intermediate
                  THEN hs.args = [i \in 1..N |-> LayerOut("dec", i)]
                  ELSE hs.args = <<LayerOut("dec", N)>>

\* ----------------------------------------------------------------- claim C9
\* C9: for every N >= 0, with return_intermediate the collected entries are
\* the norms of the layer outputs while each layer's input is the un-normalized
\* output of the layer before, there are never more entries than layers
\* executed, the last entry is the returned normalized output, and the
\* pop-then-append step never runs on an empty list.
C9_Intermediate ==
    (call \in {"Transformer", "TransformerDecoder"} /\ obj.return_intermediate) =>
        /\ Len(intermediate) <= k
        /\ \A i \in 1..Len(intermediate) :
              /\ IsDecNormOf(intermediate[i], LayerOut("dec", i))
              /\ \A j \in LayerIds("dec", i) :
                    tr[j].op = "self_attn" => tr[j].args[3] = DecLayerIn(i)
        /\ DecoderReturned /\ obj.dec_norm =>
              intermediate[Len(intermediate)] = df["output"]
        /\ ~(pc = "error" /\ err.op = "pop")

\* ----------------------------------------------------------------- claim C3
\* C3: whenever the file path + '.pth.tar' does not exist (also when path is a
\* directory, and when path is None), load_dygraph_pretrain raises ValueError,
\* calls neither torch.load nor load_state_dict and leaves the parameters
\* unchanged; load_state_dict is reached only when the file exists.
C3_ValidatesPath ==
    (call = "load_dygraph_pretrain" /\ pc # "ready") =>
        /\ FileName(ckpt.path, ".pth.tar") \notin ckpt.files =>
              /\ pc = "error" /\ err.type = "ValueError"
              /\ ~ckpt.torch_load /\ ~ckpt.load_state_dict
              /\ ckpt.params = "initial"
        /\ ckpt.load_state_dict => FileName(ckpt.path, ".pth.tar") \in ckpt.files

\* ----------------------------------------------------------------- claim C6
SupportedActivations == {"relu", "gelu", "glu", "Hswish", "relu6"}

\* C6: for each of the names relu, gelu, glu, Hswish and relu6 the selector
\* returns something the layers can call on a tensor to get the activated
\* tensor; every other name raises RuntimeError.
C6_ActivationCallable ==
    (IsModuleCall /\ pc # "new") =>
        IF cfg.activation \in SupportedActivations
        THEN /\ obj.fn # "none"
             /\ ~(pc = "error" /\ err.op = "activation")
        ELSE pc = "error" /\ err.type = "RuntimeError"
             /\ err.op = "_get_activation_fn"

\* ---------------------------------------------------------------- claim C10
\* C10: when the input's channel count equals the d_model handed to
\* Transformer, no norm1/norm2/norm3 of any layer rejects its input.
C10_NormAcceptsWidth ==
    (call = "Transformer" /\ cfg.c = cfg.d_model) =>
        ~(pc = "error" /\ err.op \in {"norm1", "norm2", "norm3"})

\* ----------------------------------------------------------------- claim C4
EncIds == {j \in TrIds : tr[j].who \in {"enc", "TransformerEncoder"}}

DecIds == {j \in TrIds : tr[j].who \in {"dec", "TransformerDecoder"}}

\* Encoder layer i ran to its last statement.
EncLayerDone(i) ==
    \E j \in LayerIds("enc", i) :
        /\ tr[j].op = "permute(2,0,1)"
        /\ tr[tr[j].args[1]].op = "norm2"

\* What the encoder stack finally produced: the result of its last operation,
\* or its input when it has no layer and no norm.
EncFinal == IF EncIds = {} THEN loc["src"] ELSE LastOf(EncIds)

\* x is with_pos_embed(t, p).
IsWithPos(x, t, p) ==
    IF p = 0 THEN x = t
    ELSE /\ x \in TrIds /\ tr[x].op = "with_pos_embed" /\ tr[x].args = <<t, p>>

\* C4: in Transformer.forward every operation of the encoder stack precedes
\* every operation of the decoder stack, the decoder starts only after all
\* encoder layers (and the encoder norm, when configured) have run, and the
\* cross-attention of every decoder layer reads the encoder's final output.
C4_EncoderBeforeDecoder ==
    call = "Transformer" =>
        /\ \A e \in EncIds, d \in DecIds : e < d
        /\ DecIds # {} =>
              /\ \A i \in 1..cfg.num_encoder_layers : EncLayerDone(i)
              /\ cfg.normalize_before =>
                    \E j \in TrIds : tr[j].who = "TransformerEncoder" /\ tr[j].op = "norm"
        /\ \A j \in TrIds : tr[j].op = "multihead_attn" =>
              /\ tr[j].args[3] = EncFinal
              /\ IsWithPos(tr[j].args[2], EncFinal, loc["pos_embed"])
              /\ df["memory"] = EncFinal

C4_Witness ==
    /\ call = "Transformer" /\ pc = "done" /\ cfg.normalize_before
    /\ cfg.num_encoder_layers = MaxLayers /\ cfg.num_decoder_layers = MaxLayers
    /\ Cardinality({j \in TrIds : tr[j].op = "multihead_attn"}) = MaxLayers

\* ----------------------------------------------------------------- claim C7
\* The tensor that enters encoder layer i: src for the first layer, then the
\* output of the layer before.
EncLayerIn(i) == IF i = 1 THEN ef["src"] ELSE LayerOut("enc", i - 1)

\* TransformerEncoder.forward has returned.
EncoderReturned ==
    \/ call = "TransformerEncoder" /\ pc = "done"
    \/ call = "Transformer" /\ pc \in {"dec", "ret", "done"}
    \/ call = "Transformer" /\ pc = "error" /\ DecIds # {}

\* Whether the caller supplied a final norm to the encoder.
EncoderNormSupplied ==
    IF call = "Transformer" THEN cfg.normalize_before ELSE cfg.norm

EncNormIds == {j \in TrIds : tr[j].who = "TransformerEncoder" /\ tr[j].op = "norm"}

\* C7: the first encoder layer receives src, each later layer receives the
\* output of the layer before, all layers receive the same mask, key-padding
\* mask and positional embedding, and the final norm is applied exactly once,
\* to the last layer's output, exactly when a norm was supplied (which
\* Transformer does exactly when normalize_before is set).
C7_EncoderComposition ==
    call \in {"Transformer", "TransformerEncoder"} =>
        /\ \A j \in TrIds : (tr[j].who = "enc" /\ tr[j].op = "self_attn") =>
              LET x == EncLayerIn(tr[j].layer)
              IN  /\ tr[j].args[3] = x
                  /\ IsWithPos(tr[j].args[1], x, ef["pos"])
                  /\ tr[j].args[2] = tr[j].args[1]
                  /\ tr[j].args[4] = ef["mask"]
                  /\ tr[j].args[5] = ef["src_key_padding_mask"]
        /\ EncoderReturned =>
              LET N    == cfg.num_encoder_layers
                  last == IF N = 0 THEN ef["src"] ELSE LayerOut("enc", N)
              IN  /\ \A i \in 1..N : EncLayerDone(i)
                  /\ IF EncoderNormSupplied
                     THEN /\ Cardinality(EncNormIds) = 1
                          /\ \A j \in EncNormIds :
                                tr[j].args = <<last>> /\ ef["output"] = j
                     ELSE EncNormIds = {} /\ ef["output"] = last

C7_Witness ==
    /\ EncoderReturned /\ EncoderNormSupplied
    /\ cfg.num_encoder_layers = MaxLayers
    /\ Cardinality({j \in TrIds : tr[j].who = "enc" /\ tr[j].op = "self_attn"})
          = MaxLayers

\* ----------------------------------------------------------------- claim C8
\* The number of layers of each stack that have run to their last statement.
EncLayersRun ==
    IF pc = "enc" THEN k
    ELSE IF EncoderReturned THEN cfg.num_encoder_layers ELSE 0

DecLayersRun ==
    IF pc = "dec" THEN k
    ELSE IF DecoderReturned THEN cfg.num_decoder_layers ELSE 0

\* Follow first arguments backwards from tensor j through the operations ops:
\* the tensor reached, or 0 when an operation on the way is another one.
RECURSIVE Walk(_, _)
Walk(j, ops) ==
    IF ops = << >> THEN j
    ELSE IF j \notin TrIds THEN 0
    ELSE IF tr[j].op # Head(ops) \/ tr[j].args = << >> THEN 0
    ELSE Walk(tr[j].args[1], Tail(ops))

\* Read r as norm(x + dropout(f)), the norm wrapped in its two permutes:
\* the sub-block's input x and the sub-block's raw result f.
Residual(r, normop, dropop) ==
    LET a == Walk(r, <<"permute(2,0,1)", normop, "permute(1,2,0)">>)
    IN  IF a = 0
        THEN [ok |-> FALSE, x |-> 0, f |-> 0]
        ELSE IF tr[a].op # "add"
        THEN [ok |-> FALSE, x |-> 0, f |-> 0]
        ELSE [ok |-> Walk(tr[a].args[2], <<dropop>>) # 0,
              x  |-> tr[a].args[1],
              f  |-> Walk(tr[a].args[2], <<dropop>>)]

FeedForward == <<"linear2", "dropout", "activation", "linear1">>

NormOps == {"norm1", "norm2", "norm3"}

\* Encoder layer i is self-attention, add, norm1, feedforward, add, norm2.
EncoderLayerPostNorm(i) ==
    LET b2 == Residual(LayerOut("enc", i), "norm2", "dropout2")
        b1 == Residual(b2.x, "norm1", "dropout1")
    IN  /\ b2.ok
        /\ Walk(b2.f, FeedForward) = b2.x
        /\ b1.ok
        /\ tr[b1.f].op = "self_attn" /\ tr[b1.f].args[3] = b1.x
        /\ b1.x = EncLayerIn(i)
        /\ Cardinality({j \in LayerIds("enc", i) : tr[j].op \in NormOps}) = 2

\* Decoder layer i is self-attention, add, norm1, cross-attention over the
\* memory, add, norm2, feedforward, add, norm3.
DecoderLayerPostNorm(i) ==
    LET b3 == Residual(LayerOut("dec", i), "norm3", "dropout3")
        b2 == Residual(b3.x, "norm2", "dropout2")
        b1 == Residual(b2.x, "norm1", "dropout1")
    IN  /\ b3.ok
        /\ Walk(b3.f, FeedForward) = b3.x
        /\ b2.ok
        /\ tr[b2.f].op = "multihead_attn" /\ tr[b2.f].args[3] = df["memory"]
        /\ IsWithPos(tr[b2.f].args[1], b2.x, df["query_pos"])
        /\ b1.ok
        /\ tr[b1.f].op = "self_attn" /\ tr[b1.f].args[3] = b1.x
        /\ b1.x = DecLayerIn(i)
        /\ Cardinality({j \in LayerIds("dec", i) : tr[j].op \in NormOps}) = 3

\* C8: every encoder layer and every decoder layer that has run applied its
\* sub-blocks in post-norm order, each sub-block's result added to its input
\* and the sum then normalized (two norms in an encoder layer, three in a
\* decoder layer), whatever normalize_before is.
C8_PostNormOrder ==
    IsModuleCall =>
        /\ \A i \in 1..EncLayersRun : EncoderLayerPostNorm(i)
        /\ \A i \in 1..DecLayersRun : DecoderLayerPostNorm(i)

C8_Witness ==
    /\ call = "Transformer" /\ pc = "done" /\ cfg.normalize_before
    /\ EncLayersRun = MaxLayers /\ DecLayersRun = MaxLayers
    /\ EncoderLayerPostNorm(MaxLayers) /\ DecoderLayerPostNorm(MaxLayers)

\* ----------------------------------------------------------------- claim C5
\* The (sequence, batch, channel) index of the element at (b, ch, y, x).
SeqIndex(idx, w) == <<idx[3] * w + idx[4], idx[1], idx[2]>>

\* The (batch, channel, sequence) index of the element at (s, b, ch).
BCSIndex(idx) == <<idx[2], idx[3], idx[1]>>

\* The permute pair around the norm whose result is the view j restores the
\* (sequence, batch, channel) order of the tensor x that went in.
PermutesRestore(j) ==
    LET n == tr[j].args[1]
        p == tr[n].args[1]
        x == tr[p].args[1]
    IN  /\ tr[n].op \in NormOps /\ tr[p].op = "permute(1,2,0)"
        /\ tr[j].shape = tr[x].shape
        /\ \A idx \in Indices(tr[x].shape) :
              /\ Offset(tr[p], BCSIndex(idx)) = Offset(tr[x], idx)
              /\ Offset(tr[j], idx) = Offset(tr[n], BCSIndex(idx))

\* C5: Transformer.forward puts the input element (b, ch, y, x) at sequence
\* position y*W + x, batch b, channel ch; the memory it returns has shape
\* (N, C, H, W) with the element of sequence position y*W + x, batch b,
\* channel ch at (b, ch, y, x); and the permutes around the norms of an encoder
\* layer restore the (sequence, batch, channel) order.
C5_ReshapeRoundTrip ==
    call = "Transformer" =>
        LET sh4 == <<cfg.bs, cfg.c, cfg.h, cfg.w>>
        IN  /\ (pc = "enc" /\ k = 0) =>
                  /\ tr[loc["src"]].shape = <<cfg.h * cfg.w, cfg.bs, cfg.c>>
                  /\ \A idx \in Indices(sh4) :
                        Offset(tr[loc["src"]], SeqIndex(idx, cfg.w))
                            = Offset(tr[1], idx)
            /\ pc = "done" =>
                  /\ tr[result[2]].op = "view(bs,c,h,w)"
                  /\ tr[result[2]].shape = sh4
                  /\ \A idx \in Indices(sh4) :
                        Offset(tr[result[2]], idx)
                            = Offset(tr[loc["memory"]], SeqIndex(idx, cfg.w))
            /\ (pc = "enc" /\ k >= 1) =>
                  \A j \in LayerIds("enc", k) :
                      tr[j].op = "permute(2,0,1)" => PermutesRestore(j)

C5_Witness ==
    /\ call = "Transformer" /\ pc = "done"
    /\ cfg.bs = 2 /\ cfg.h = 2 /\ cfg.w = 3
    /\ cfg.num_encoder_layers = MaxLayers
    /\ tr[result[2]].shape = <<2, cfg.c, 2, 3>>
    /\ tr[loc["memory"]].shape = <<6, 2, cfg.c>>

====
